---------------------------- MODULE Spec2Model ----------------------------
(* A model of aamras' driver package: the JSON-backed CookieManager        *)
(* (aamras/driver/cookies.py) and the selenium Driver wrapper              *)
(* (aamras/driver/driver.py).  The selenium WebDriver and the file system  *)
(* are the environment: their answers are inputs drawn from small sets.    *)
EXTENDS Integers, Sequences, FiniteSets

VARIABLES
    fs,           \* the file system: path -> JSON document, or NoFile
    file_,        \* the path handed to CookieManager.__init__
    cookie_file,  \* CookieManager.cookie_file
    jar,          \* the cookies the WebDriver holds (what get_cookies returns)
    quit,         \* TRUE once WebDriver.quit() was called
    dom,          \* the page the WebDriver shows: a sequence of elements
    op,           \* the last method called
    arg,          \* the argument of the last call that took one
    added,        \* the records handed to add so far, in order
    ret,          \* how the last call ended: [status, value]
    trace         \* the WebDriver / CookieManager calls the last Driver method made

vars == <<fs, file_, cookie_file, jar, quit, dom, op, arg, added, ret, trace>>

-----------------------------------------------------------------------------
(* Bounds *)

\* longest list of cookies handed to save, held by the driver or added
MaxLen == 2
\* most elements on a page
MaxElems == 2

-----------------------------------------------------------------------------
(* Python values *)

\* A float is v / FloatDen: binary fractions, which a double holds exactly and
\* whose product with 1000 a double holds exactly too.
FloatDen == 2 ^ 4

NoExpiry == [t |-> "absent", v |-> 0]
IntExp(n) == [t |-> "int", v |-> n]
FloatExp(k) == [t |-> "float", v |-> k]

Domains == {"example.com", "other.org"}
\* absent, 0 and 7 ms, 1.5625 s, -1.5625 s and 2.0 s
Expiries == {NoExpiry, IntExp(0), IntExp(7), FloatExp(25), FloatExp(-25), FloatExp(32)}
CookieRecords == [domain : Domains, expiry : Expiries]

RECURSIVE SeqsUpTo(_, _)
SeqsUpTo(S, n) ==
    IF n = 0 THEN {<<>>}
    ELSE LET shorter == SeqsUpTo(S, n - 1)
         IN  shorter \cup {Append(s, x) : s \in shorter, x \in S}

PyList(s) == [kind |-> "list", items |-> s]
\* a mapping: the one record whose keys it has, or nothing for {}
PyDict(s) == [kind |-> "dict", items |-> s]
PyNone == [kind |-> "None", items |-> <<>>]

Ok(v) == [status |-> "ok", value |-> v]
Raise(e) == [status |-> e, value |-> PyNone]

CookieLists == {PyList(s) : s \in SeqsUpTo(CookieRecords, MaxLen)}
LoneCookies == {PyDict(<<c>>) : c \in CookieRecords}

Map(f(_), s) == [i \in 1..Len(s) |-> f(s[i])]

-----------------------------------------------------------------------------
(* json *)

NoFile == [kind |-> "absent", items |-> <<>>]

json_dumps_number(e) ==
    CASE e.t = "int" -> [lit |-> "integer", v |-> e.v]
      [] e.t = "float" -> [lit |-> "real", v |-> e.v]
      [] OTHER -> [lit |-> "nokey", v |-> 0]

json_dumps_object(c) ==
    [domain |-> c.domain, expiry |-> json_dumps_number(c.expiry)]

json_dumps(value) ==
    [kind |-> IF value.kind = "list" THEN "array" ELSE "object",
     items |-> Map(json_dumps_object, value.items)]

json_loads_number(tok) ==
    CASE tok.lit = "integer" -> IntExp(tok.v)
      [] tok.lit = "real" -> FloatExp(tok.v)
      [] OTHER -> NoExpiry

json_loads_object(o) ==
    [domain |-> o.domain, expiry |-> json_loads_number(o.expiry)]

json_loads(doc) ==
    [kind |-> IF doc.kind = "array" THEN "list" ELSE "dict",
     items |-> Map(json_loads_object, doc.items)]

-----------------------------------------------------------------------------
(* aamras/driver/cookies.py *)

COOKIE_FILE == "cookies.json"
test_cookie_file == "cookies.test.json"
Paths == {COOKIE_FILE, test_cookie_file}

\* what a CookieManager answers to: its own methods and LoggerMixin's log
CookieManagerAttrs == {"__init__", "load", "save", "log"}

CookieManager__init__(path) == COOKIE_FILE

\* int(): truncation toward zero
int_floor(num, den) == num \div den
int(num, den) == IF num >= 0 THEN num \div den ELSE -((-num) \div den)

with_valid_expiry(cookie) ==
    IF cookie.expiry.t = "float"
    THEN [cookie EXCEPT !.expiry = IntExp(int(cookie.expiry.v * 1000, FloatDen))]
    ELSE cookie

load(files, path) ==
    IF files[path] = NoFile THEN Ok(PyDict(<<>>))
    ELSE LET cookies == json_loads(files[path])
         IN  IF cookies.kind = "list"
             THEN Ok(PyList(Map(with_valid_expiry, cookies.items)))
             \* a mapping is iterated by its keys: "expiry"["expiry"] raises
             ELSE IF \E i \in 1..Len(cookies.items) : cookies.items[i].expiry # NoExpiry
                  THEN Raise("TypeError")
                  ELSE Ok(cookies)

\* the last record of each domain only
DedupByDomain(s) ==
    LET keep == SelectSeq([i \in 1..Len(s) |-> i],
                          LAMBDA i : \A j \in (i + 1)..Len(s) : s[j].domain # s[i].domain)
    IN  [k \in 1..Len(keep) |-> s[keep[k]]]

save_dedup(files, path, cookies) ==
    [files EXCEPT ![path] =
        json_dumps([cookies EXCEPT !.items = DedupByDomain(cookies.items)])]

save(files, path, cookies) == [files EXCEPT ![path] = json_dumps(cookies)]

-----------------------------------------------------------------------------
(* The cookie store on its own: a CookieManager and its file *)

InitStore ==
    /\ fs = [p \in Paths |-> NoFile]
    /\ file_ \in Paths
    /\ cookie_file = CookieManager__init__(file_)
    /\ jar = <<>>
    /\ quit = FALSE
    /\ dom = <<>>
    /\ op = "__init__"
    /\ arg = PyNone
    /\ added = <<>>
    /\ ret = Ok(PyNone)
    /\ trace = <<>>

Load ==
    /\ op' = "load"
    /\ ret' = load(fs, cookie_file)
    /\ UNCHANGED <<fs, file_, cookie_file, jar, quit, dom, arg, added, trace>>

Save ==
    \E cookies \in CookieLists \cup LoneCookies :
        /\ op' = "save"
        /\ arg' = cookies
        /\ fs' = save(fs, cookie_file, cookies)
        /\ ret' = Ok(PyNone)
        /\ UNCHANGED <<file_, cookie_file, jar, quit, dom, added, trace>>

NextStore == Load \/ Save

SpecStore == InitStore /\ [][NextStore]_vars

-----------------------------------------------------------------------------
(* add, which the tests call and CookieManager does not define *)

Add ==
    \E record \in CookieRecords :
        /\ Len(added) < MaxLen
        /\ "add" \notin CookieManagerAttrs
        /\ op' = "add"
        /\ arg' = record
        /\ added' = Append(added, record)
        /\ ret' = Raise("AttributeError")
        /\ UNCHANGED <<fs, file_, cookie_file, jar, quit, dom, trace>>

NextAdd == Add \/ Load

SpecAdd == InitStore /\ [][NextAdd]_vars

-----------------------------------------------------------------------------
(* aamras/driver/driver.py: the session *)

\* Driver.cookies: a CookieManager() made on first use, with the default path
CookieManagerMixin_cookies == CookieManager__init__(COOKIE_FILE)

close_quit_first(files, cookies, getFails, saveFails) ==
    IF getFails
    THEN [fs |-> files, quit |-> TRUE, status |-> "WebDriverException",
          trace |-> <<"driver.quit", "driver.get_cookies">>]
    ELSE IF saveFails
    THEN [fs |-> files, quit |-> TRUE, status |-> "OSError",
          trace |-> <<"driver.quit", "driver.get_cookies", "cookies.save">>]
    ELSE [fs |-> save(files, CookieManagerMixin_cookies, PyList(cookies)),
          quit |-> TRUE, status |-> "ok",
          trace |-> <<"driver.quit", "driver.get_cookies", "cookies.save">>]

\* close(): _save_cookies() (get_cookies, then save), then driver.quit(); an
\* exception of either step leaves close() at once
close(files, cookies, getFails, saveFails) ==
    IF getFails
    THEN [fs |-> files, quit |-> FALSE, status |-> "WebDriverException",
          trace |-> <<"driver.get_cookies">>]
    ELSE IF saveFails
    THEN [fs |-> files, quit |-> FALSE, status |-> "OSError",
          trace |-> <<"driver.get_cookies", "cookies.save">>]
    ELSE [fs |-> save(files, CookieManagerMixin_cookies, PyList(cookies)),
          quit |-> TRUE, status |-> "ok",
          trace |-> <<"driver.get_cookies", "cookies.save", "driver.quit">>]

\* what the store file may hold when a session starts
StoredBefore == {NoFile} \cup {json_dumps(PyList(s)) : s \in SeqsUpTo(CookieRecords, 1)}

Init ==
    /\ fs \in {[p \in Paths |-> IF p = COOKIE_FILE THEN doc ELSE NoFile] : doc \in StoredBefore}
    /\ file_ = COOKIE_FILE
    /\ cookie_file = CookieManagerMixin_cookies
    /\ jar = <<>>
    /\ quit = FALSE
    /\ dom = <<>>
    /\ op = "__init__"
    /\ arg = PyNone
    /\ added = <<>>
    /\ ret = Ok(PyNone)
    /\ trace = <<>>

\* get(url): driver.get(url_new), then _load_cookies(), whose first statement
\* calls self.cookies.get(), which CookieManager does not define: the
\* AttributeError leaves _load_cookies and get before any add_cookie.  The
\* page loaded may set a cookie in the driver.
Get ==
    /\ ~quit
    /\ \/ jar' = jar
       \/ \E c \in CookieRecords : Len(jar) < MaxLen /\ jar' = Append(jar, c)
    /\ op' = "get"
    /\ "get" \notin CookieManagerAttrs
    /\ trace' = <<"driver.get", "cookies.get">>
    /\ ret' = Raise("AttributeError")
    /\ UNCHANGED <<fs, file_, cookie_file, quit, dom, arg, added>>

Close ==
    \E getFails \in BOOLEAN, saveFails \in BOOLEAN :
        LET out == close(fs, jar, getFails, saveFails)
        IN  /\ ~quit
            /\ op' = "close"
            /\ fs' = out.fs
            /\ quit' = out.quit
            /\ trace' = out.trace
            /\ ret' = Raise(out.status)
            /\ UNCHANGED <<file_, cookie_file, jar, dom, arg, added>>

\* __exit__(*exc_details): close(), whether or not the block raised
Exit ==
    \E getFails \in BOOLEAN, saveFails \in BOOLEAN :
        LET out == close(fs, jar, getFails, saveFails)
        IN  /\ ~quit
            /\ op' = "__exit__"
            /\ fs' = out.fs
            /\ quit' = out.quit
            /\ trace' = out.trace
            /\ ret' = Raise(out.status)
            /\ UNCHANGED <<file_, cookie_file, jar, dom, arg, added>>

Next == Get \/ Close \/ Exit

Spec == Init /\ [][Next]_vars

-----------------------------------------------------------------------------
(* aamras/driver/driver.py: element queries *)

None == "None"
Ids == {"a", "b"}
Names == {"n"}
Classes == {<<"c", "d">>, <<"d">>}
Tags == {"div", "span"}
\* class: the tokens of the class attribute, split at spaces
Elements == [id : Ids, name : Names, class : Classes, tag : Tags]
Pages == SeqsUpTo(Elements, MaxElems)
Criteria == [id_ : {None, "", "a"}, name : {None, "n"}, class_ : {None, "c"}, tag : {None, "div"}]

bool(x) == x # None /\ x # ""

Indices(page) == [i \in 1..Len(page) |-> i]

\* the WebDriver's lookups: the elements of the page, in document order
find_elements_by_id(page, v) == SelectSeq(Indices(page), LAMBDA i : page[i].id = v)
find_elements_by_name(page, v) == SelectSeq(Indices(page), LAMBDA i : page[i].name = v)
find_elements_by_class_name(page, v) ==
    SelectSeq(Indices(page), LAMBDA i : \E k \in 1..Len(page[i].class) : page[i].class[k] = v)
find_elements_by_tag_name(page, v) == SelectSeq(Indices(page), LAMBDA i : page[i].tag = v)

attr_filter(attr, value) == [kind |-> "attr", attr |-> attr, value |-> value]
tag_filter(tag) == [kind |-> "tag", attr |-> "tag", value |-> tag]
class_filter(class_) == [kind |-> "class", attr |-> "class", value |-> class_]

\* filter_(element) of the predicate a filter constructor returned
filter_(f, element) ==
    CASE f.kind = "attr" -> element[f.attr] = f.value
      [] f.kind = "tag" -> element.tag = f.value
      [] OTHER -> \E k \in 1..Len(element.class) : element.class[k] = f.value

identifiers_defined(c) == SelectSeq(<<c.id_, c.name, c.class_, c.tag>>, bool)

\* for filter_ in filters: matches_filtered = list(filter(filter_, matches))
RECURSIVE filter_loop(_, _, _, _)
filter_loop(page, filters, matches, matches_filtered) ==
    IF filters = <<>> THEN matches_filtered
    ELSE filter_loop(page, Tail(filters), matches,
                     SelectSeq(matches, LAMBDA i : filter_(Head(filters), page[i])))

When(cond, s) == IF cond THEN s ELSE <<>>

elements(page, c) ==
    IF identifiers_defined(c) = <<>>
    THEN [ret |-> Raise("AssertionError"), trace |-> <<>>]
    ELSE LET matches ==
                 When(bool(c.id_), find_elements_by_id(page, c.id_))
                 \o When(bool(c.name), find_elements_by_name(page, c.name))
                 \o When(bool(c.class_), find_elements_by_class_name(page, c.class_))
                 \o When(bool(c.tag), find_elements_by_tag_name(page, c.tag))
             filters ==
                 When(bool(c.id_), <<attr_filter("id", c.id_)>>)
                 \o When(bool(c.name), <<attr_filter("name", c.name)>>)
                 \o When(bool(c.class_), <<class_filter(c.class_)>>)
                 \o When(bool(c.tag), <<tag_filter(c.tag)>>)
             lookups ==
                 When(bool(c.id_), <<"find_elements_by_id">>)
                 \o When(bool(c.name), <<"find_elements_by_name">>)
                 \o When(bool(c.class_), <<"find_elements_by_class_name">>)
                 \o When(bool(c.tag), <<"find_elements_by_tag_name">>)
         IN  [ret |-> Ok(PyList(filter_loop(page, filters, matches, matches))),
              trace |-> lookups]

\* find_element_by_*: the first element found, or NoSuchElementException
first(found) ==
    IF found = <<>> THEN Raise("NoSuchElementException")
    ELSE Ok([kind |-> "element", items |-> <<Head(found)>>])

element_lookup(page, c) ==
    IF bool(c.id_)
    THEN [ret |-> first(find_elements_by_id(page, c.id_)), trace |-> <<"find_element_by_id">>]
    ELSE IF bool(c.name)
    THEN [ret |-> first(find_elements_by_name(page, c.name)), trace |-> <<"find_element_by_name">>]
    ELSE IF bool(c.class_)
    THEN [ret |-> first(find_elements_by_class_name(page, c.class_)),
          trace |-> <<"find_element_by_class_name">>]
    ELSE IF bool(c.tag)
    THEN [ret |-> first(find_elements_by_tag_name(page, c.tag)),
          trace |-> <<"find_element_by_tag_name">>]
    ELSE [ret |-> Ok(PyNone), trace |-> <<>>]

element_at_least_one(page, c) ==
    IF Len(identifiers_defined(c)) >= 1
    THEN element_lookup(page, c)
    ELSE [ret |-> Raise("AssertionError"), trace |-> <<>>]

element(page, c) ==
    IF Len(identifiers_defined(c)) = 1
    THEN element_lookup(page, c)
    ELSE [ret |-> Raise("AssertionError"), trace |-> <<>>]

InitQuery ==
    /\ fs = [p \in Paths |-> NoFile]
    /\ file_ = COOKIE_FILE
    /\ cookie_file = CookieManagerMixin_cookies
    /\ jar = <<>>
    /\ quit = FALSE
    /\ dom \in Pages
    /\ op = "__init__"
    /\ arg = PyNone
    /\ added = <<>>
    /\ ret = Ok(PyNone)
    /\ trace = <<>>

FindAll ==
    \E c \in Criteria :
        LET out == elements(dom, c)
        IN  /\ op' = "elements"
            /\ arg' = c
            /\ ret' = out.ret
            /\ trace' = out.trace
            /\ UNCHANGED <<fs, file_, cookie_file, jar, quit, dom, added>>

FindOne ==
    \E c \in Criteria :
        LET out == element(dom, c)
        IN  /\ op' = "element"
            /\ arg' = c
            /\ ret' = out.ret
            /\ trace' = out.trace
            /\ UNCHANGED <<fs, file_, cookie_file, jar, quit, dom, added>>

NextQuery == FindAll \/ FindOne

SpecQuery == InitQuery /\ [][NextQuery]_vars

-----------------------------------------------------------------------------
(* Properties *)

\* out is raw with a float expiry replaced by its 1000-fold truncated toward
\* zero, and nothing else changed
Truncates(num, den, q) ==
    /\ num >= 0 => q >= 0 /\ q * den <= num /\ num < (q + 1) * den
    /\ num < 0 => q <= 0 /\ q * den >= num /\ num > (q - 1) * den

NormalizedFrom(raw, out) ==
    /\ out.domain = raw.domain
    /\ raw.expiry.t = "float" =>
           out.expiry.t = "int" /\ Truncates(raw.expiry.v * 1000, FloatDen, out.expiry.v)
    /\ raw.expiry.t # "float" => out.expiry = raw.expiry

IntOrAbsentExpiry(s) == \A i \in 1..Len(s) : s[i].expiry.t \in {"int", "absent"}

\* C1: starting from an absent store file, after add calls only, load()
\* returns a list with one record per domain added, each the record most
\* recently added for its domain.
C1_AddThenLoad ==
    (op = "load" /\ added # <<>>) =>
        /\ ret.status = "ok"
        /\ ret.value.kind = "list"
        /\ \A i, j \in 1..Len(ret.value.items) :
               ret.value.items[i].domain = ret.value.items[j].domain => i = j
        /\ \A k \in 1..Len(added) :
               \E i \in 1..Len(ret.value.items) :
                   /\ ret.value.items[i].domain = added[k].domain
                   /\ \E m \in k..Len(added) :
                          /\ ret.value.items[i] = added[m]
                          /\ \A n \in (m + 1)..Len(added) : added[n].domain # added[m].domain

\* C2: load() after save(records), records a list whose expiries are integers
\* or absent, returns the same records in the same order, whatever the file
\* held before and with the duplicates by domain kept.
C2_SaveLoadRoundTrip ==
    (op = "load" /\ arg.kind = "list" /\ IntOrAbsentExpiry(arg.items)) => ret = Ok(arg)

C2_Witness ==
    /\ op = "load"
    /\ arg.kind = "list"
    /\ Len(arg.items) = 2
    /\ arg.items[1].domain = arg.items[2].domain
    /\ arg.items[1].expiry = IntExp(7)
    /\ arg.items[2].expiry = NoExpiry
    /\ ret.value.items = arg.items

CloseOps == {"close", "__exit__"}

SavedBeforeQuit ==
    \A i \in 1..Len(trace) :
        trace[i] = "driver.quit" =>
            \E j, k \in 1..Len(trace) :
                j < k /\ k < i /\ trace[j] = "driver.get_cookies" /\ trace[k] = "cookies.save"

\* C3 as stated: every close reads the driver's cookies and saves them before
\* quit, and after a close that completes the store file holds the snapshot
\* and load() returns that snapshot.
C3_CloseThenLoadReturnsSnapshot ==
    op \in CloseOps =>
        /\ SavedBeforeQuit
        /\ ret.status = "ok" =>
               /\ fs[cookie_file] = json_dumps(PyList(jar))
               /\ load(fs, cookie_file) = Ok(PyList(jar))

\* C3 amended: every close reads the driver's cookies and saves them before
\* quit; after a close that completes the store file holds the snapshot, and
\* load() returns the snapshot with each floating-point expiry replaced by
\* its 1000-fold truncated to an integer.
C3_CloseSavesBeforeQuit ==
    op \in CloseOps =>
        /\ SavedBeforeQuit
        /\ ret.status = "ok" =>
               /\ quit
               /\ fs[cookie_file] = json_dumps(PyList(jar))
               /\ LET got == load(fs, cookie_file)
                  IN  /\ got.status = "ok"
                      /\ got.value.kind = "list"
                      /\ Len(got.value.items) = Len(jar)
                      /\ \A i \in 1..Len(jar) : NormalizedFrom(jar[i], got.value.items[i])

C3_Witness ==
    /\ op = "close"
    /\ ret.status = "ok"
    /\ quit
    /\ Len(jar) = 2
    /\ jar[1].expiry = FloatExp(25)
    /\ jar[2].expiry = IntExp(7)
    /\ load(fs, cookie_file).value.items[1].expiry = IntExp(1562)

\* C4: every navigation call completes normally, having tried to set every
\* cookie held in the store after the driver navigated.
C4_GetAppliesStoredCookies ==
    op = "get" =>
        /\ ret.status = "ok"
        /\ Len(trace) >= 1
        /\ trace[1] = "driver.get"
        /\ Len(SelectSeq(trace, LAMBDA t : t = "driver.add_cookie"))
               = Len(load(fs, cookie_file).value.items)

\* the criteria present, and the predicate each stands for
Present(c) == {k \in {"id_", "name", "class_", "tag"} : c[k] \notin {None, ""}}

Meets(e, c) ==
    /\ "id_" \in Present(c) => e.id = c.id_
    /\ "name" \in Present(c) => e.name = c.name
    /\ "class_" \in Present(c) => \E k \in 1..Len(e.class) : e.class[k] = c.class_
    /\ "tag" \in Present(c) => e.tag = c.tag

Seed(page, c) ==
    IF "id_" \in Present(c) THEN find_elements_by_id(page, c.id_)
    ELSE IF "name" \in Present(c) THEN find_elements_by_name(page, c.name)
    ELSE IF "class_" \in Present(c) THEN find_elements_by_class_name(page, c.class_)
    ELSE find_elements_by_tag_name(page, c.tag)

\* C5: elements() returns the elements of the first present criterion's
\* lookup that meet every present criterion, in that lookup's order.
C5_SeededIntersection ==
    (op = "elements" /\ ret.status = "ok") =>
        ret.value.items = SelectSeq(Seed(dom, arg), LAMBDA i : Meets(dom[i], arg))

\* C6: elements() raises AssertionError exactly when no criterion is
\* non-empty, element() exactly when the number of non-empty criteria is not
\* one, and a call that raises it has made no lookup.
C6_CriteriaCountEnforced ==
    /\ op = "elements" =>
           /\ ret.status = "AssertionError" <=> Cardinality(Present(arg)) = 0
           /\ ret.status = "AssertionError" => trace = <<>>
           /\ ret.status # "AssertionError" => Len(trace) = Cardinality(Present(arg))
    /\ op = "element" =>
           /\ ret.status = "AssertionError" <=> Cardinality(Present(arg)) # 1
           /\ ret.status = "AssertionError" => trace = <<>>
           /\ ret.status # "AssertionError" => Len(trace) = 1

C6_Witness ==
    /\ op = "element"
    /\ Present(arg) = {"name", "tag"}
    /\ arg.id_ = ""
    /\ Len(dom) = 2
    /\ ret.status = "AssertionError"
    /\ trace = <<>>

\* C7: load() returns, for each record of the file, that record with a float
\* expiry replaced by its 1000-fold truncated toward zero, an integer or
\* absent expiry as it is, and every other field as it is.
C7_LoadNormalizesExpiry ==
    (op = "load" /\ arg.kind = "list") =>
        /\ ret.status = "ok"
        /\ ret.value.kind = "list"
        /\ Len(ret.value.items) = Len(arg.items)
        /\ \A i \in 1..Len(arg.items) : NormalizedFrom(arg.items[i], ret.value.items[i])

C7_Witness ==
    /\ op = "load"
    /\ arg.kind = "list"
    /\ Len(arg.items) = 2
    /\ arg.items[1].expiry = FloatExp(-25)
    /\ arg.items[2].expiry = IntExp(7)
    /\ ret.value.items[1].expiry = IntExp(-1562)
    /\ ret.value.items[2].expiry = IntExp(7)

\* C8: a CookieManager made with a path other than cookies.json loads from
\* that path and saves to that path, and leaves cookies.json alone.
C8_CustomPathHonoured ==
    file_ # COOKIE_FILE =>
        /\ fs[COOKIE_FILE] = NoFile
        /\ op = "save" => fs[file_] = json_dumps(arg)
        /\ op = "load" => ret = load(fs, file_)

\* C9: save of a lone record leaves the file holding the array of that one
\* record, as save of the one-element list does.
C9_SaveWrapsLoneRecord ==
    (op = "save" /\ arg.kind = "dict") =>
        /\ fs[cookie_file].kind = "array"
        /\ fs[cookie_file] = save(fs, cookie_file, PyList(arg.items))[cookie_file]

\* C10: once close() or __exit__() has ended, normally or by an exception,
\* the driver's quit has been called.
C10_QuitOnEveryExit == op \in CloseOps => quit

=============================================================================
